---- MODULE Spec2Model ----
(***************************************************************************)
(* Model of the two notebooks of the repository:                           *)
(*   - the shape-image generator (create_image, generate_image_data) of    *)
(*     the transfer-learning notebook, and                                 *)
(*   - predict_image of the transfer-learning notebook,                    *)
(*   - the segmentation pair dataset (PlaneDataSet) and the training cell  *)
(*     (load_data, train, the epoch loop) of the U-Net notebook.           *)
(* Five specifications share the variables: Spec (generate_image_data      *)
(* over a file system), SpecImage (create_image and the raster it          *)
(* returns), SpecData (PlaneDataSet.__getitem__), SpecTrain (the training  *)
(* cell) and SpecPredict (predict_image).                                  *)
(***************************************************************************)
EXTENDS Integers, Sequences, FiniteSets, TLC

VARIABLES
    \* ---- generate_image_data -------------------------------------------
    classes,        \* argument: the list of class labels
    cases,          \* argument: the case count
    dirs,           \* file system: directories at and below img_dir, as paths relative to it
    files,          \* file system: the files below img_dir, a set of [path, data]
    replace_folder, \* the answer read by input()
    pc,             \* position in generate_image_data
    i,              \* loop counter of the while loop
    k,              \* position of the for loop in classes
    stdout,         \* what print() and input() have written, one tuple per line
    failures,       \* number of img.save calls that raised so far
    cimg,           \* the image of the current for-loop iteration
    saves,          \* history: the img.save calls, in order, as [file, ok]
    fs0,            \* history: the file system when the call started
    \* ---- create_image --------------------------------------------------
    ipc,            \* position in create_image
    isize,          \* argument: size (width, height)
    ishape,         \* argument: shape
    xy1, xy2, col,  \* the random draws
    img,            \* the value returned: np.array(img)
    \* ---- PlaneDataSet --------------------------------------------------
    dpc,            \* position in __init__ / __getitem__
    image_dir,      \* the files of image_path: file name -> grayscale raster
    mask_dir,       \* the files of mask_path: file name -> grayscale raster
    filenames,      \* self.filenames
    index,          \* argument of __getitem__
    rand,           \* the random draw of __getitem__
    image_tensor,   \* image_tensor
    result,         \* the pair returned by __getitem__
    imgFlipped,     \* history: the flip branch was taken for the image
    maskFlipped,    \* history: the flip branch was taken for the mask
    \* ---- train and the epoch loop of the U-Net notebook ----------------
    tpc,            \* position in the training cell
    n_samples,      \* len(data_loader.dataset)
    bad,            \* the samples whose mask has no image file
    weights_file,   \* the checkpoint file: the parameters it holds
    params,         \* the parameters of the model
    epoch,          \* epoch
    order,          \* the order in which the shuffling loader visits the samples
    pos,            \* the number of samples the loader has delivered this epoch
    train_loss,     \* train_loss, the running total of train
    epoch_nums,     \* epoch_nums
    training_loss,  \* training_loss: a float num/den is kept as <<num, den>>
    batch_losses,   \* history: per epoch, the losses added to the running total
    io_log,         \* history: the reads and writes of the checkpoint file
    \* ---- predict_image -------------------------------------------------
    ppc,            \* position in predict_image
    image_array,    \* argument: the batch of images
    predictions,    \* classifier.predict(imgfeatures)
    pidx,           \* the number of predictions the for loop has handled
    predicted_classes \* predicted_classes

genVars == <<classes, cases, dirs, files, replace_folder, pc, i, k, stdout,
             failures, cimg, saves, fs0>>
imgVars == <<ipc, isize, ishape, xy1, xy2, col, img>>
dataVars == <<dpc, image_dir, mask_dir, filenames, index, rand, image_tensor,
              result, imgFlipped, maskFlipped>>
trainVars == <<tpc, n_samples, bad, weights_file, params, epoch, order, pos,
               train_loss, epoch_nums, training_loss, batch_losses, io_log>>
predVars == <<ppc, image_array, predictions, pidx, predicted_classes>>
vars == <<genVars, imgVars, dataVars, trainVars, predVars>>

(***************************************************************************)
(* Bounds of the model.                                                    *)
(***************************************************************************)
MaxCases == 4       \* case counts 0..MaxCases
MaxFailures == 2    \* at most this many img.save calls raise in one run
CoordStride == 30   \* random coordinates are sampled every CoordStride values
ColStride == 200    \* random colour channels are sampled every ColStride values
DataW == 2          \* width of the rasters of the segmentation dataset
DataH == 2          \* height of the rasters of the segmentation dataset
MaxData == 3        \* size of the training dataset, 1..MaxData samples
MaxLoss == 2        \* the loss of a batch is one of 0..MaxLoss
MaxBatch == 2       \* predict_image is given 0..MaxBatch images
MaxProb == 1        \* a predicted probability is one of 0..MaxProb

(***************************************************************************)
(* random.randint(a, b): an integer of a..b, both ends included.  The      *)
(* model samples the range: both ends and every stride-th value between.   *)
(***************************************************************************)
randint(a, b, stride) ==
    {v \in a..b : v = a \/ v = b \/ (v - a) % stride = 0}

(***************************************************************************)
(* create_image (size, shape)                                              *)
(***************************************************************************)
XY1Min == 10        \* randint(10,40)
XY1Max == 40
XY2Min == 60        \* randint(60,100)
XY2Max == 100
ColMin == 0         \* randint(0,200)
ColMax == 200
White == 255        \* Image.new("RGB", size, (255, 255, 255))
ImgSize == 128      \* img_size = (128,128)

SmallSize == 8      \* a requested size smaller than every corner coordinate
MidSize == 101      \* a requested size just above every corner coordinate

Background == <<White, White, White>>

Shapes == {"circle", "square", "triangle"}

ImageSizes ==
    {<<SmallSize, SmallSize>>, <<MidSize, MidSize>>,
     <<ImgSize, MidSize>>, <<ImgSize, ImgSize>>}

\* xy1 = randint(10,40)
DrawXY1 == randint(XY1Min, XY1Max, CoordStride)

\* xy2 = randint(60,100)
DrawXY2 == randint(XY2Min, XY2Max, CoordStride)

\* a channel drawn from the whole 8-bit range
DrawChannelFullRange == randint(ColMin, White, ColStride)

\* one channel of col: randint(0,200)
DrawChannel == randint(ColMin, ColMax, ColStride)

\* col = (randint(0,200), randint(0,200), randint(0,200))
DrawCol == DrawChannel \X DrawChannel \X DrawChannel

\* draw.ellipse([(a,a), (b,b)], fill): the pixels of the ellipse inscribed in
\* the bounding box, whose centre is ((a+b)/2, (a+b)/2) and radius (b-a)/2.
InEllipse(a, b, x, y) ==
    (2 * x - (a + b)) * (2 * x - (a + b)) + (2 * y - (a + b)) * (2 * y - (a + b))
        <= (b - a) * (b - a)

\* draw.rectangle([(a,a), (b,b)], fill): the pixels of the box, corners included.
InRectangle(a, b, x, y) ==
    a <= x /\ x <= b /\ a <= y /\ y <= b

\* draw.polygon([(a,a), (b,b), (b,a)], fill): the triangle with these vertices.
InPolygon(a, b, x, y) ==
    a <= y /\ y <= x /\ x <= b

\* the if / elif / else on shape: any label that is neither 'circle' nor
\* 'square' draws the triangle
InShape(shape, a, b, x, y) ==
    IF shape = "circle" THEN InEllipse(a, b, x, y)
    ELSE IF shape = "square" THEN InRectangle(a, b, x, y)
    ELSE InPolygon(a, b, x, y)

\* an image created with width and height exchanged
ImageNewTransposed(size, colour) ==
    [width |-> size[2], height |-> size[1],
     px |-> [x \in 0 .. size[2] - 1 |-> [y \in 0 .. size[1] - 1 |-> colour]]]

\* Image.new("RGB", size, (255, 255, 255)): size is (width, height), and
\* px[x][y] is the pixel at column x, row y
ImageNew(size, colour) ==
    [width |-> size[1], height |-> size[2],
     px |-> [x \in 0 .. size[1] - 1 |-> [y \in 0 .. size[2] - 1 |-> colour]]]

\* the draw call on the image: the pixels of the shape that lie inside the
\* raster take the fill colour, every other pixel is left as it was
DrawOn(image, shape, a, b, fill) ==
    [image EXCEPT !.px =
        [x \in 0 .. image.width - 1 |-> [y \in 0 .. image.height - 1 |->
            IF InShape(shape, a, b, x, y) THEN fill ELSE image.px[x][y]]]]

\* np.array(img): an array of shape (height, width, 3), indexed [row][column]
NpArray(image) ==
    [y \in 0 .. image.height - 1 |-> [x \in 0 .. image.width - 1 |-> image.px[x][y]]]

\* the array create_image returns for the given draws
Raster(size, shape, a, b, fill) ==
    NpArray(DrawOn(ImageNew(size, Background), shape, a, b, fill))

ImageIdle ==
    /\ ipc = "idle" /\ isize = <<0, 0>> /\ ishape = "" /\ xy1 = 0 /\ xy2 = 0
    /\ col = <<0, 0, 0>> /\ img = <<>>

InitImage_ ==
    /\ ipc = "draw"
    /\ isize \in ImageSizes
    /\ ishape \in Shapes
    /\ xy1 = 0 /\ xy2 = 0 /\ col = <<0, 0, 0>> /\ img = <<>>

\* lines 37-39: the three random draws
RandomDraws ==
    /\ ipc = "draw"
    /\ xy1' \in DrawXY1
    /\ xy2' \in DrawXY2
    /\ col' \in DrawCol
    /\ ipc' = "shape"
    /\ UNCHANGED <<genVars, dataVars, trainVars, predVars, isize, ishape, img>>

\* lines 41-52, shape == 'circle'
DrawCircle ==
    /\ ipc = "shape" /\ ishape = "circle"
    /\ img' = Raster(isize, ishape, xy1, xy2, col)
    /\ ipc' = "returned"
    /\ UNCHANGED <<genVars, dataVars, trainVars, predVars, isize, ishape, xy1, xy2, col>>

\* lines 41-52, shape == 'square'
DrawSquare ==
    /\ ipc = "shape" /\ ishape = "square"
    /\ img' = Raster(isize, ishape, xy1, xy2, col)
    /\ ipc' = "returned"
    /\ UNCHANGED <<genVars, dataVars, trainVars, predVars, isize, ishape, xy1, xy2, col>>

\* lines 41-52, the else branch (triangle)
DrawTriangle ==
    /\ ipc = "shape" /\ ishape \notin {"circle", "square"}
    /\ img' = Raster(isize, ishape, xy1, xy2, col)
    /\ ipc' = "returned"
    /\ UNCHANGED <<genVars, dataVars, trainVars, predVars, isize, ishape, xy1, xy2, col>>


(***************************************************************************)
(* generate_image_data (classes, size, cases, img_dir)                     *)
(*                                                                         *)
(* The file system below img_dir: dirs holds the directories as paths      *)
(* relative to img_dir (<<>> is img_dir itself, <<c>> the subdirectory c), *)
(* files holds [path |-> <<c, name>>, data |-> ...].  The data of a file   *)
(* written by this call is [image, run |-> 1, complete]; a file that was   *)
(* there before the call has run |-> 0.                                    *)
(***************************************************************************)

\* classnames = ['circle', 'square', 'triangle'] and its non-empty sublists of
\* distinct labels, in every order
ClassLists ==
    {s \in UNION {[1..n -> Shapes] : n \in 1..Cardinality(Shapes)} :
        \A a, b \in DOMAIN s : a # b => s[a] # s[b]}

\* the values input() may return
Answers == {"Y", "y", "N", "", "Yes"}

\* create_image(size, classname) inside the loop: the image is kept as the
\* shape and the draws that determine its raster; two draws are sampled
GenDraws ==
    {<<XY1Min, XY2Min, <<ColMin, ColMin, ColMin>>>>,
     <<XY1Max, XY2Max, <<ColMax, ColMax, ColMax>>>>}

create_image(shape, d) ==
    [shape |-> shape, xy1 |-> d[1], xy2 |-> d[2], col |-> d[3]]

\* directories and files a call may find at img_dir
NoTree == [dirs |-> {}, files |-> {}]

EmptyTree == [dirs |-> {<<>>}, files |-> {}]

OldData(shape) ==
    [image |-> create_image(shape, <<XY1Min, XY2Min, <<ColMin, ColMin, ColMin>>>>),
     run |-> 0, complete |-> TRUE]

OldTree ==
    [dirs |-> {<<>>, <<"circle">>, <<"old">>},
     files |-> {[path |-> <<"circle", "circle1.jpg">>, data |-> OldData("circle")],
                [path |-> <<"circle", "circle9.jpg">>, data |-> OldData("circle")],
                [path |-> <<"old", "old1.jpg">>, data |-> OldData("old")]}]

Trees == {NoTree, EmptyTree, OldTree}

\* os.path.exists(img_dir)
ImgDirExists(ds) == <<>> \in ds

\* a case-insensitive comparison of the answer
AffirmativeAnyCase(ans) == ans \in {"Y", "y"}

\* replace_folder == "Y"
Affirmative(ans) == ans = "Y"

\* a removal of the files that leaves the directories in place
RmtreeFilesOnly(tree) == [dirs |-> tree.dirs, files |-> {}]

\* shutil.rmtree(img_dir): the directory and everything below it
Rmtree(tree) == [dirs |-> {}, files |-> {}]

\* os.makedirs(path): the directory and its missing parents
Makedirs(ds, path) ==
    ds \cup {SubSeq(path, 1, n) : n \in 0..Len(path)}

\* the loop condition without the "- 1"
LoopConditionNoMinusOne(i_, cases_, n) == i_ * n < cases_

\* i < (cases - 1) / len(classes), a true division
LoopCondition(i_, cases_, n) == i_ * n < cases_ - 1

\* saveFolder = os.path.join(img_dir, classname)
SaveFolder(classname) == <<classname>>

\* a file name numbered from zero
ImgFileNameFromZero(classname, i_) ==
    SaveFolder(classname) \o <<classname \o ToString(i_ - 1) \o ".jpg">>

\* imgFileName = os.path.join(saveFolder, classname + str(i) + '.jpg')
ImgFileName(classname, i_) ==
    SaveFolder(classname) \o <<classname \o ToString(i_) \o ".jpg">>

\* a file written at path replaces what was there
WriteFile(fs, path, data) ==
    {f \in fs : f.path # path} \cup {[path |-> path, data |-> data]}

\* img.save(imgFileName) returning normally
Saved(fs, path, image) ==
    WriteFile(fs, path, [image |-> image, run |-> 1, complete |-> TRUE])

\* img.save(imgFileName) raising: either nothing was written, or the file was
\* opened and is left truncated
SaveRaised(fs, path, image) ==
    {fs, WriteFile(fs, path, [image |-> image, run |-> 1, complete |-> FALSE])}

GenIdle ==
    /\ classes = <<>> /\ cases = 0 /\ dirs = {} /\ files = {}
    /\ replace_folder = "" /\ pc = "idle" /\ i = 0 /\ k = 0 /\ stdout = <<>>
    /\ failures = 0 /\ cimg = <<>> /\ saves = <<>> /\ fs0 = NoTree

InitGen ==
    /\ classes \in ClassLists
    /\ cases \in 0..MaxCases
    /\ \E t \in Trees : dirs = t.dirs /\ files = t.files /\ fs0 = t
    /\ replace_folder = "" /\ pc = "call" /\ i = 0 /\ k = 0 /\ stdout = <<>>
    /\ failures = 0 /\ cimg = <<>> /\ saves = <<>>

\* lines 59-65, the directory exists and the answer is not "Y": return
Decline ==
    /\ pc = "call"
    /\ ImgDirExists(dirs)
    /\ \E ans \in Answers :
        /\ ~Affirmative(ans)
        /\ replace_folder' = ans
    /\ stdout' = Append(stdout, <<"Image folder already exists.">>)
    /\ pc' = "returned"
    /\ UNCHANGED <<imgVars, dataVars, trainVars, predVars, classes, cases, dirs, files, i, k, failures, cimg, saves, fs0>>

\* lines 59-68, the directory exists and the answer is "Y": delete, recreate
Replace ==
    /\ pc = "call"
    /\ ImgDirExists(dirs)
    /\ \E ans \in Answers :
        /\ Affirmative(ans)
        /\ replace_folder' = ans
    /\ LET t == Rmtree([dirs |-> dirs, files |-> files])
       IN /\ dirs' = Makedirs(t.dirs, <<>>)
          /\ files' = t.files
    /\ stdout' = stdout \o <<<<"Image folder already exists.">>,
                            <<"Deleting old images...">>,
                            <<"Generating new images...">>>>
    /\ i' = 0
    /\ pc' = "while"
    /\ UNCHANGED <<imgVars, dataVars, trainVars, predVars, classes, cases, k, failures, cimg, saves, fs0>>

\* lines 59, 66-68, the directory does not exist: create it
Create ==
    /\ pc = "call"
    /\ ~ImgDirExists(dirs)
    /\ dirs' = Makedirs(dirs, <<>>)
    /\ stdout' = Append(stdout, <<"Generating new images...">>)
    /\ i' = 0
    /\ pc' = "while"
    /\ UNCHANGED <<imgVars, dataVars, trainVars, predVars, classes, cases, files, replace_folder, k, failures, cimg, saves, fs0>>

\* lines 69-72, the loop condition holds: progress, i += 1, start the for loop
LoopEnter ==
    /\ pc = "while"
    /\ LoopCondition(i, cases, Len(classes))
    /\ stdout' = IF i % 25 = 0
                 THEN Append(stdout, <<"Progress:", i * Len(classes), cases>>)
                 ELSE stdout
    /\ i' = i + 1
    /\ k' = 1
    /\ pc' = "for"
    /\ UNCHANGED <<imgVars, dataVars, trainVars, predVars, classes, cases, dirs, files, replace_folder, failures, cimg, saves, fs0>>

\* line 69, the loop condition fails: the function returns
LoopExit ==
    /\ pc = "while"
    /\ ~LoopCondition(i, cases, Len(classes))
    /\ pc' = "returned"
    /\ UNCHANGED <<imgVars, dataVars, trainVars, predVars, classes, cases, dirs, files, replace_folder, i, k, stdout,
                   failures, cimg, saves, fs0>>

\* the end of one for-loop iteration: the next class, or back to the while
NextImage ==
    /\ k' = k + 1
    /\ pc' = IF k = Len(classes) THEN "while" ELSE "for"
    /\ cimg' = <<>>

\* lines 73-80, img.save returns
SaveOk ==
    /\ pc = "for"
    /\ \E d \in GenDraws :
        LET classname == classes[k]
            image == create_image(classname, d)
            path == ImgFileName(classname, i)
        IN /\ dirs' = Makedirs(dirs, SaveFolder(classname))
           /\ files' = Saved(files, path, image)
           /\ saves' = Append(saves, [file |-> path, ok |-> TRUE])
    /\ NextImage
    /\ UNCHANGED <<imgVars, dataVars, trainVars, predVars, classes, cases, replace_folder, i, stdout, failures, fs0>>

\* lines 73-81, img.save raises: the except clause is entered
SaveFails ==
    /\ pc = "for"
    /\ failures < MaxFailures
    /\ \E d \in GenDraws :
        LET classname == classes[k]
            image == create_image(classname, d)
            path == ImgFileName(classname, i)
        IN /\ dirs' = Makedirs(dirs, SaveFolder(classname))
           /\ files' \in SaveRaised(files, path, image)
           /\ saves' = Append(saves, [file |-> path, ok |-> FALSE])
           /\ cimg' = image
    /\ failures' = failures + 1
    /\ pc' = "retry"
    /\ UNCHANGED <<imgVars, dataVars, trainVars, predVars, classes, cases, replace_folder, i, k, stdout, fs0>>

\* lines 82-84, the second img.save returns
RetryOk ==
    /\ pc = "retry"
    /\ LET path == ImgFileName(classes[k], i)
       IN /\ files' = Saved(files, path, cimg)
          /\ saves' = Append(saves, [file |-> path, ok |-> TRUE])
    /\ NextImage
    /\ UNCHANGED <<imgVars, dataVars, trainVars, predVars, classes, cases, dirs, replace_folder, i, stdout, failures, fs0>>

\* a retry that is repeated until the save succeeds
RetryFailsAgain ==
    /\ pc = "retry"
    /\ failures < MaxFailures
    /\ LET path == ImgFileName(classes[k], i)
       IN /\ files' \in SaveRaised(files, path, cimg)
          /\ saves' = Append(saves, [file |-> path, ok |-> FALSE])
    /\ failures' = failures + 1
    /\ UNCHANGED <<imgVars, dataVars, trainVars, predVars, classes, cases, dirs, replace_folder, pc, i, k, stdout,
                   cimg, fs0>>

\* lines 82-87, the second img.save raises too: the error is printed
RetryFails ==
    /\ pc = "retry"
    /\ failures < MaxFailures
    /\ LET path == ImgFileName(classes[k], i)
       IN /\ files' \in SaveRaised(files, path, cimg)
          /\ saves' = Append(saves, [file |-> path, ok |-> FALSE])
          /\ stdout' = Append(stdout, <<"Error saving image", path>>)
    /\ failures' = failures + 1
    /\ NextImage
    /\ UNCHANGED <<imgVars, dataVars, trainVars, predVars, classes, cases, dirs, replace_folder, i, fs0>>

(***************************************************************************)
(* class PlaneDataSet(td.Dataset)                                          *)
(*                                                                         *)
(* A grayscale raster is [row -> [column -> 0..255]].  A float is kept as   *)
(* a fraction <<numerator, 255>>, so that equal floats are equal tuples.   *)
(***************************************************************************)
RandLo == 0         \* random.randint(0, 2)
RandHi == 2
FlipAbove == 1      \* if rand > 1
MaxPixel == 255     \* image/255

FileNames == {"p1.png", "p2.png"}

\* grayscale files of DataH x DataW pixels: a left-right asymmetric one with
\* extreme values, one with intermediate values, and a uniform one
Rasters ==
    {[y \in 0 .. DataH - 1 |-> [x \in 0 .. DataW - 1 |-> IF x = 0 THEN MaxPixel ELSE 0]],
     [y \in 0 .. DataH - 1 |-> [x \in 0 .. DataW - 1 |-> (100 * x + 50 * y + 30) % (MaxPixel + 1)]],
     [y \in 0 .. DataH - 1 |-> [x \in 0 .. DataW - 1 |-> MaxPixel]]}

\* the directories a dataset may be built on
Directories == UNION {[names -> Rasters] : names \in SUBSET FileNames}

\* os.listdir(path): the names of the directory, in any order
Listdir(dir) ==
    {s \in [1 .. Cardinality(DOMAIN dir) -> DOMAIN dir] :
        \A a, b \in DOMAIN s : a # b => s[a] # s[b]}

\* the file names taken from the image directory instead
FilenamesOfImages(image_d, mask_d) == Listdir(image_d)

\* self.filenames = os.listdir(mask_path)
InitFilenames(image_d, mask_d) == Listdir(mask_d)

\* __len__: len(self.filenames)
DataSetLen(names) == Len(names)

\* rand = random.randint(0, 2)
DrawRand == randint(RandLo, RandHi, 1)

\* a flip decided on any non-zero draw
FlipOnNonZero(r) == r > 0

\* "if rand > 1" for the image
ImageFlipCond(r) == r > FlipAbove

\* "if rand > 1" for the mask
MaskFlipCond(r) == r > FlipAbove

\* image/255 on the 8-bit array io.imread returns: the float v/255, kept as
\* the fraction <<v, 255>>
Normalize(raster) ==
    [y \in DOMAIN raster |-> [x \in DOMAIN raster[y] |-> <<raster[y][x], MaxPixel>>]]

\* Image.fromarray(a).transpose(Image.FLIP_LEFT_RIGHT): the columns reversed
FlipLeftRight(a) ==
    [y \in DOMAIN a |-> [x \in DOMAIN a[y] |-> a[y][(Cardinality(DOMAIN a[y]) - 1) - x]]]

\* the 8-bit value of a float: clipped to 0..255 and truncated
ToUint8(f) ==
    IF f[1] <= 0 THEN 0
    ELSE IF f[1] >= MaxPixel * f[2] THEN MaxPixel
    ELSE f[1] \div f[2]

\* .convert("L") of a float image followed by np.array: an 8-bit array
ConvertL(a) ==
    [y \in DOMAIN a |-> [x \in DOMAIN a[y] |-> ToUint8(a[y][x])]]

\* np.expand_dims(a, axis=0) and torch.Tensor of a float array: a leading
\* channel dimension
TensorOfFloats(a) == <<a>>

\* np.expand_dims(a, axis=0) and torch.Tensor of an 8-bit array: a leading
\* channel dimension, each integer n as the float n (the fraction
\* <<255 n, 255>>)
TensorOfBytes(a) ==
    <<[y \in DOMAIN a |-> [x \in DOMAIN a[y] |-> <<MaxPixel * a[y][x], MaxPixel>>]]>>

\* the tensor __getitem__ builds from one raster, with or without the flip
ItemOf(raster, flip) ==
    IF flip THEN TensorOfBytes(ConvertL(FlipLeftRight(Normalize(raster))))
    ELSE TensorOfFloats(Normalize(raster))

DataIdle ==
    /\ dpc = "idle" /\ image_dir = <<>> /\ mask_dir = <<>> /\ filenames = <<>>
    /\ index = 0 /\ rand = 0 /\ image_tensor = <<>> /\ result = <<>>
    /\ imgFlipped = FALSE /\ maskFlipped = FALSE

InitData_ ==
    /\ dpc = "new"
    /\ image_dir \in Directories
    /\ mask_dir \in Directories
    /\ filenames = <<>>
    /\ index = 0 /\ rand = 0 /\ image_tensor = <<>> /\ result = <<>>
    /\ imgFlipped = FALSE /\ maskFlipped = FALSE

\* __init__: self.filenames = os.listdir(mask_path)
Construct ==
    /\ dpc = "new"
    /\ filenames' \in InitFilenames(image_dir, mask_dir)
    /\ dpc' = "ready"
    /\ UNCHANGED <<genVars, imgVars, trainVars, predVars, image_dir, mask_dir, index, rand, image_tensor,
                   result, imgFlipped, maskFlipped>>

\* the environment: a file appears in mask_path after the construction
MaskFileAdded ==
    /\ dpc = "ready"
    /\ \E name \in FileNames \ DOMAIN mask_dir : \E r \in Rasters :
          mask_dir' = [n \in DOMAIN mask_dir \cup {name} |->
                          IF n = name THEN r ELSE mask_dir[n]]
    /\ UNCHANGED <<genVars, imgVars, trainVars, predVars, dpc, image_dir, filenames, index, rand,
                   image_tensor, result, imgFlipped, maskFlipped>>

\* __getitem__(index), up to the random draw
GetItem ==
    /\ dpc = "ready"
    /\ index' \in 0 .. DataSetLen(filenames) - 1
    /\ rand' \in DrawRand
    /\ dpc' = "image"
    /\ UNCHANGED <<genVars, imgVars, trainVars, predVars, image_dir, mask_dir, filenames, image_tensor,
                   result, imgFlipped, maskFlipped>>

\* a missing image that is skipped: the error is swallowed and the dataset
\* is ready for the next access
ImageMissingSkipped ==
    /\ dpc = "image"
    /\ filenames[index + 1] \notin DOMAIN image_dir
    /\ dpc' = "ready"
    /\ UNCHANGED <<genVars, imgVars, trainVars, predVars, image_dir, mask_dir, filenames, index, rand,
                   image_tensor, result, imgFlipped, maskFlipped>>

\* io.imread(img_path) on a file that is not there raises
ImageMissing ==
    /\ dpc = "image"
    /\ filenames[index + 1] \notin DOMAIN image_dir
    /\ dpc' = "raised"
    /\ UNCHANGED <<genVars, imgVars, trainVars, predVars, image_dir, mask_dir, filenames, index, rand,
                   image_tensor, result, imgFlipped, maskFlipped>>

\* the image is loaded and normalized, and rand > 1: it is flipped
ImageFlip ==
    /\ dpc = "image"
    /\ filenames[index + 1] \in DOMAIN image_dir
    /\ ImageFlipCond(rand)
    /\ image_tensor' = ItemOf(image_dir[filenames[index + 1]], TRUE)
    /\ imgFlipped' = TRUE
    /\ dpc' = "mask"
    /\ UNCHANGED <<genVars, imgVars, trainVars, predVars, image_dir, mask_dir, filenames, index, rand,
                   result, maskFlipped>>

\* the image is loaded and normalized, and not rand > 1
ImageNoFlip ==
    /\ dpc = "image"
    /\ filenames[index + 1] \in DOMAIN image_dir
    /\ ~ImageFlipCond(rand)
    /\ image_tensor' = ItemOf(image_dir[filenames[index + 1]], FALSE)
    /\ imgFlipped' = FALSE
    /\ dpc' = "mask"
    /\ UNCHANGED <<genVars, imgVars, trainVars, predVars, image_dir, mask_dir, filenames, index, rand,
                   result, maskFlipped>>

\* the same for the mask, with rand > 1: the pair is returned
MaskFlip ==
    /\ dpc = "mask"
    /\ MaskFlipCond(rand)
    /\ result' = <<image_tensor, ItemOf(mask_dir[filenames[index + 1]], TRUE)>>
    /\ maskFlipped' = TRUE
    /\ dpc' = "returned"
    /\ UNCHANGED <<genVars, imgVars, trainVars, predVars, image_dir, mask_dir, filenames, index, rand,
                   image_tensor, imgFlipped>>

\* the same for the mask, without the flip: the pair is returned
MaskNoFlip ==
    /\ dpc = "mask"
    /\ ~MaskFlipCond(rand)
    /\ result' = <<image_tensor, ItemOf(mask_dir[filenames[index + 1]], FALSE)>>
    /\ maskFlipped' = FALSE
    /\ dpc' = "returned"
    /\ UNCHANGED <<genVars, imgVars, trainVars, predVars, image_dir, mask_dir, filenames, index, rand,
                   image_tensor, imgFlipped>>


(***************************************************************************)
(* load_data, train and the training cell of the U-Net notebook            *)
(*                                                                         *)
(* The parameters of the model are kept as the number of optimizer steps   *)
(* applied to the parameters the checkpoint file held at the start (0).    *)
(***************************************************************************)
Epochs == 2         \* epochs = 2
BatchSize == 2      \* batch_size=2

\* the loss of one batch, loss.item()
Losses == 0 .. MaxLoss

\* the datasets the loader is built on: 1..MaxData samples (a shuffling
\* loader cannot be built on an empty dataset), at most one of which has a
\* mask without an image
Datasets ==
    {[n |-> n, bad |-> b] : n \in 1 .. MaxData, b \in {{}} \cup {{x} : x \in 1 .. MaxData}}

\* shuffle=True: the samples in any order
Shuffled(n) ==
    {s \in [1 .. n -> 1 .. n] : \A a, b \in 1 .. n : a # b => s[a] # s[b]}

\* the next batch of the loader: batch_size samples, fewer at the end
NextBatch(ord, p) ==
    {ord[j] : j \in (p + 1) .. (IF p + BatchSize <= Len(ord) THEN p + BatchSize ELSE Len(ord))}

\* avg_training_loss = train_loss / len(data_loader.dataset)
AverageLoss(total, n) == <<total, n>>

TrainIdle ==
    /\ tpc = "idle" /\ n_samples = 0 /\ bad = {} /\ weights_file = 0 /\ params = 0
    /\ epoch = 0 /\ order = <<>> /\ pos = 0 /\ train_loss = 0 /\ epoch_nums = <<>>
    /\ training_loss = <<>> /\ batch_losses = <<>> /\ io_log = <<>>

InitTrain_ ==
    /\ tpc = "start"
    /\ \E d \in Datasets : d.bad \subseteq 1 .. d.n /\ n_samples = d.n /\ bad = d.bad
    /\ weights_file = 0
    /\ params = -1
    /\ epoch = 0 /\ order = <<>> /\ pos = 0 /\ train_loss = 0 /\ epoch_nums = <<>>
    /\ training_loss = <<>> /\ batch_losses = <<>> /\ io_log = <<>>

\* model.load_state_dict(torch.load(weights_file, map_location=device))
LoadWeights ==
    /\ tpc = "start"
    /\ params' = weights_file
    /\ io_log' = Append(io_log, "read")
    /\ tpc' = "for"
    /\ UNCHANGED <<genVars, imgVars, dataVars, predVars, n_samples, bad, weights_file,
                   epoch, order, pos, train_loss, epoch_nums, training_loss, batch_losses>>

\* for epoch in range(1, epochs + 1): the next epoch, and train up to its loop
EpochStart ==
    /\ tpc = "for"
    /\ Len(epoch_nums) < Epochs
    /\ epoch' = Len(epoch_nums) + 1
    /\ train_loss' = 0
    /\ order' \in Shuffled(n_samples)
    /\ pos' = 0
    /\ batch_losses' = Append(batch_losses, <<>>)
    /\ tpc' = "batches"
    /\ UNCHANGED <<genVars, imgVars, dataVars, predVars, n_samples, bad, weights_file,
                   params, epoch_nums, training_loss, io_log>>

\* one iteration of the loop over data_loader: forward, loss, running total,
\* backward, optimizer step
Batch ==
    /\ tpc = "batches"
    /\ pos < n_samples
    /\ NextBatch(order, pos) \cap bad = {}
    /\ \E loss \in Losses :
          /\ train_loss' = train_loss + loss
          /\ batch_losses' = [batch_losses EXCEPT ![epoch] = Append(@, loss)]
    /\ params' = params + 1
    /\ pos' = pos + Cardinality(NextBatch(order, pos))
    /\ UNCHANGED <<genVars, imgVars, dataVars, predVars, tpc, n_samples, bad,
                   weights_file, epoch, order, epoch_nums, training_loss, io_log>>

\* the loader calls __getitem__ on a sample whose image is missing: the
\* exception leaves train and the cell
BatchRaises ==
    /\ tpc = "batches"
    /\ pos < n_samples
    /\ NextBatch(order, pos) \cap bad # {}
    /\ tpc' = "raised"
    /\ UNCHANGED <<genVars, imgVars, dataVars, predVars, n_samples, bad, weights_file,
                   params, epoch, order, pos, train_loss, epoch_nums, training_loss,
                   batch_losses, io_log>>

\* an epoch end that also saves the weights
EpochEndSaving ==
    /\ tpc = "batches"
    /\ pos = n_samples
    /\ epoch_nums' = Append(epoch_nums, epoch)
    /\ training_loss' =
          Append(training_loss, AverageLoss(train_loss, n_samples))
    /\ weights_file' = params
    /\ io_log' = Append(io_log, "write")
    /\ tpc' = "for"
    /\ UNCHANGED <<genVars, imgVars, dataVars, predVars, n_samples, bad,
                   params, epoch, order, pos, train_loss, batch_losses>>

\* the loader is exhausted: train returns the average, the cell appends
\* epoch and the returned value to its lists
EpochEnd ==
    /\ tpc = "batches"
    /\ pos = n_samples
    /\ epoch_nums' = Append(epoch_nums, epoch)
    /\ training_loss' =
          Append(training_loss, AverageLoss(train_loss, n_samples))
    /\ tpc' = "for"
    /\ UNCHANGED <<genVars, imgVars, dataVars, predVars, n_samples, bad, weights_file,
                   params, epoch, order, pos, train_loss, batch_losses, io_log>>

\* torch.save(model.state_dict(), weights_file), after the for loop
SaveWeights ==
    /\ tpc = "for"
    /\ Len(epoch_nums) >= Epochs
    /\ weights_file' = params
    /\ io_log' = Append(io_log, "write")
    /\ tpc' = "saved"
    /\ UNCHANGED <<genVars, imgVars, dataVars, predVars, n_samples, bad, params, epoch,
                   order, pos, train_loss, epoch_nums, training_loss, batch_losses>>


(***************************************************************************)
(* predict_image                                                           *)
(*                                                                         *)
(* The classifier is any function from a batch of images to one row of     *)
(* class probabilities per image; a row is indexed from 0 as in the code.  *)
(***************************************************************************)
NumClasses == 3     \* the width of a row of predictions

\* classnames = ['circle', 'square', 'triangle']
predict_classnames == <<"circle", "square", "triangle">>

\* the batches predict_image is given: 1..MaxBatch images
Batches == {[j \in 1 .. n |-> j] : n \in 1 .. MaxBatch}

\* the rows classifier.predict can return
Rows == [0 .. NumClasses - 1 -> 0 .. MaxProb]

\* a scan that keeps the last of the largest entries
RECURSIVE ArgmaxLastFrom(_, _, _)
ArgmaxLastFrom(prediction, j, best) ==
    IF j > NumClasses - 1 THEN best
    ELSE ArgmaxLastFrom(prediction, j + 1, IF prediction[j] >= prediction[best] THEN j ELSE best)

ArgmaxLast(prediction) == ArgmaxLastFrom(prediction, 1, 0)

\* np.argmax scans the row and keeps the first of the largest entries
RECURSIVE ArgmaxFrom(_, _, _)
ArgmaxFrom(prediction, j, best) ==
    IF j > NumClasses - 1 THEN best
    ELSE ArgmaxFrom(prediction, j + 1, IF prediction[j] > prediction[best] THEN j ELSE best)

\* class_idx = np.argmax(prediction)
Argmax(prediction) == ArgmaxFrom(prediction, 1, 0)

PredIdle ==
    /\ ppc = "idle" /\ image_array = <<>> /\ predictions = <<>> /\ pidx = 0
    /\ predicted_classes = <<>>

InitPredict_ ==
    /\ ppc = "start"
    /\ image_array \in Batches
    /\ predictions = <<>> /\ pidx = 0 /\ predicted_classes = <<>>

\* predictions = classifier.predict(imgfeatures); predicted_classes = []
Predict ==
    /\ ppc = "start"
    /\ predictions' \in [1 .. Len(image_array) -> Rows]
    /\ predicted_classes' = <<>>
    /\ pidx' = 0
    /\ ppc' = "loop"
    /\ UNCHANGED <<genVars, imgVars, dataVars, trainVars, image_array>>

\* one iteration of for prediction in predictions
AppendClass ==
    /\ ppc = "loop"
    /\ pidx < Len(predictions)
    /\ predicted_classes' =
          Append(predicted_classes, predict_classnames[Argmax(predictions[pidx + 1]) + 1])
    /\ pidx' = pidx + 1
    /\ UNCHANGED <<genVars, imgVars, dataVars, trainVars, ppc, image_array, predictions>>

\* return predicted_classes
ReturnClasses ==
    /\ ppc = "loop"
    /\ pidx = Len(predictions)
    /\ ppc' = "returned"
    /\ UNCHANGED <<genVars, imgVars, dataVars, trainVars, image_array, predictions, pidx,
                   predicted_classes>>

Init == InitGen /\ ImageIdle /\ DataIdle /\ TrainIdle /\ PredIdle

Next ==
    \/ Decline \/ Replace \/ Create
    \/ LoopEnter \/ LoopExit
    \/ SaveOk \/ SaveFails \/ RetryOk \/ RetryFails

Spec == Init /\ [][Next]_vars

InitImage == InitImage_ /\ GenIdle /\ DataIdle /\ TrainIdle /\ PredIdle

NextImageSpec ==
    RandomDraws \/ DrawCircle \/ DrawSquare \/ DrawTriangle

SpecImage == InitImage /\ [][NextImageSpec]_vars

InitData == InitData_ /\ GenIdle /\ ImageIdle /\ TrainIdle /\ PredIdle

NextData ==
    \/ Construct \/ MaskFileAdded \/ GetItem
    \/ ImageMissing \/ ImageFlip \/ ImageNoFlip
    \/ MaskFlip \/ MaskNoFlip

SpecData == InitData /\ [][NextData]_vars

InitTrain == InitTrain_ /\ GenIdle /\ ImageIdle /\ DataIdle /\ PredIdle

NextTrain ==
    \/ LoadWeights \/ EpochStart
    \/ Batch \/ BatchRaises
    \/ EpochEnd \/ SaveWeights

\* the cell is run by one thread that does not stop before its last statement
SpecTrain == InitTrain /\ [][NextTrain]_vars /\ WF_vars(NextTrain)

InitPredict == InitPredict_ /\ GenIdle /\ ImageIdle /\ DataIdle /\ TrainIdle

NextPredict == Predict \/ AppendClass \/ ReturnClasses

SpecPredict == InitPredict /\ [][NextPredict]_vars

(***************************************************************************)
(* Properties of generate_image_data                                       *)
(***************************************************************************)
Range(s) == {s[n] : n \in DOMAIN s}

Returned == pc = "returned"

\* the call started with no directory at img_dir
Fresh == ~ImgDirExists(fs0.dirs)

NoSaveFailed == failures = 0

\* ceil(a / n) for n > 0
Ceil(a, n) == IF a <= 0 THEN 0 ELSE (a + n - 1) \div n

Paths == {f.path : f \in files}

FilesIn(c) == {f \in files : f.path[1] = c}

\* the directories and file paths of <root>/<class>/<class><index>.jpg with
\* indices 1..n for every class of the list cl
LayoutDirs(cl) == {<<>>} \cup {<<c>> : c \in Range(cl)}

LayoutPaths(cl, n) ==
    {<<c, c \o ToString(j) \o ".jpg">> : c \in Range(cl), j \in 1..n}

\* C1: after a run into a non-existent directory with no save failure and
\* cases >= 1, every class subdirectory holds exactly ceil((cases-1)/N)
\* files, and every file lies in the subdirectory of the class it was
\* generated for.
C1_PerClassCount ==
    (Returned /\ Fresh /\ NoSaveFailed /\ cases >= 1) =>
        /\ \A c \in Range(classes) :
              Cardinality(FilesIn(c)) = Ceil(cases - 1, Len(classes))
        /\ \A f \in files :
              /\ Len(f.path) = 2
              /\ f.path[1] \in Range(classes)
              /\ f.data.image.shape = f.path[1]

C1_Witness ==
    /\ Returned /\ Fresh /\ NoSaveFailed
    /\ cases = 4 /\ Len(classes) = 2
    /\ Cardinality(files) = 4

\* C2: when the directory exists and the answer is anything but "Y", the call
\* returns and the directory and its contents are as before the call.
C2_DeclineLeavesUntouched ==
    (ImgDirExists(fs0.dirs) /\ pc # "call" /\ replace_folder # "Y") =>
        /\ Returned
        /\ dirs = fs0.dirs
        /\ files = fs0.files
        /\ saves = <<>>

C2_Witness ==
    /\ Returned /\ fs0 = OldTree /\ replace_folder = "y"
    /\ files = OldTree.files

\* the positions in saves of the img.save calls on one file
SavesOf(path) == {n \in DOMAIN saves : saves[n].file = path}

\* C3: each image's save is attempted at most twice, the second time only
\* after the first attempt failed; an image whose two attempts failed is
\* logged, and only such an image; the call never stops before it returns,
\* it returns after the same number of iterations whatever failed, with
\* every image attempted; and a file once written completely is never
\* removed or changed.
C3_Attempts ==
    /\ \A f \in Range(saves) : Cardinality(SavesOf(f.file)) <= 2
    /\ \A n, m \in DOMAIN saves :
          (n < m /\ saves[n].file = saves[m].file) => ~saves[n].ok
    /\ \A f \in Range(saves) :
          (<<"Error saving image", f.file>> \in Range(stdout))
              <=> /\ Cardinality(SavesOf(f.file)) = 2
                  /\ \A n \in SavesOf(f.file) : ~saves[n].ok
    /\ Returned \/ ENABLED Next
    /\ (Returned /\ (Fresh \/ replace_folder = "Y")) =>
          /\ i = Ceil(cases - 1, Len(classes))
          /\ {f.file : f \in Range(saves)} = LayoutPaths(classes, i)

C3_Kept ==
    \A f \in files : (f.data.run = 1 /\ f.data.complete) => f \in files'

C3_RetryOnce == []C3_Attempts /\ [][C3_Kept]_vars

C3_Witness ==
    /\ Returned /\ failures = 2
    /\ \E f \in Range(saves) :
          /\ <<"Error saving image", f.file>> \in Range(stdout)
          /\ f.file \notin Paths
    /\ files # {}

\* C4 as amended: for cases >= 2, a run into a non-existent directory with no
\* save failure leaves exactly one subdirectory per class and nothing else,
\* each holding the files <class><j>.jpg for j = 1..n with the same n >= 1;
\* the paths are a function of the class list and the case count alone.
C4_Layout ==
    (Returned /\ Fresh /\ NoSaveFailed /\ cases >= 2) =>
        /\ dirs = LayoutDirs(classes)
        /\ Ceil(cases - 1, Len(classes)) >= 1
        /\ Paths = LayoutPaths(classes, Ceil(cases - 1, Len(classes)))
        /\ Cardinality(files) = Cardinality(Paths)

C4_Witness ==
    /\ Returned /\ Fresh /\ NoSaveFailed
    /\ cases = 4 /\ Len(classes) = 2
    /\ \E f, g \in files : f.data.image.col # g.data.image.col

\* C4 as stated: for every case count the output directory holds exactly one
\* subdirectory per class, all with the same number n of files named
\* <class><j>.jpg, j = 1..n.
C4_LayoutEveryCount ==
    (Returned /\ Fresh /\ NoSaveFailed) =>
        /\ dirs = LayoutDirs(classes)
        /\ \E n \in 0..(MaxCases + 1) : Paths = LayoutPaths(classes, n)

\* C5: files and directories that were there before the call disappear only
\* when the directory existed and the answer was "Y"; such a call ends with
\* no file of the old directory left and with what a run into a non-existent
\* directory leaves.
C5_ReplaceIsFullRegeneration ==
    /\ ~(fs0.files \subseteq files /\ fs0.dirs \subseteq dirs) =>
          (ImgDirExists(fs0.dirs) /\ replace_folder = "Y")
    /\ (Returned /\ ImgDirExists(fs0.dirs) /\ replace_folder = "Y") =>
          /\ \A f \in files : f.data.run = 1
          /\ dirs \subseteq LayoutDirs(classes)
          /\ Paths \subseteq LayoutPaths(classes, Ceil(cases - 1, Len(classes)))
          /\ NoSaveFailed =>
                /\ Paths = LayoutPaths(classes, Ceil(cases - 1, Len(classes)))
                /\ dirs = IF cases >= 2 THEN LayoutDirs(classes) ELSE {<<>>}

C5_Witness ==
    /\ Returned /\ fs0 = OldTree /\ replace_folder = "Y" /\ NoSaveFailed
    /\ cases = 4 /\ Len(classes) = 2
    /\ Cardinality(files) = 4

\* C6: when cases is a positive multiple of the number of classes and no save
\* fails, a run into a non-existent directory writes exactly cases images.
C6_TotalIsCases ==
    (Returned /\ Fresh /\ NoSaveFailed /\ cases > 0 /\ cases % Len(classes) = 0) =>
        Cardinality(files) = cases

(***************************************************************************)
(* Properties of create_image                                              *)
(***************************************************************************)
ImageReturned == ipc = "returned"

\* the returned array has the requested height (rows) and width (columns)
HasRequestedSize ==
    /\ DOMAIN img = 0 .. isize[2] - 1
    /\ \A y \in DOMAIN img : DOMAIN img[y] = 0 .. isize[1] - 1

\* every pixel outside the shape drawn with the corners xy1, xy2 is white
WhiteOutsideShape ==
    \A y \in DOMAIN img : \A x \in DOMAIN img[y] :
        ~InShape(ishape, xy1, xy2, x, y) => img[y][x] = <<255, 255, 255>>

\* every pixel of the raster inside the shape has the fill colour
FillInsideShape ==
    \A y \in DOMAIN img : \A x \in DOMAIN img[y] :
        InShape(ishape, xy1, xy2, x, y) => img[y][x] = col

SomePixelIsFill == \E y \in DOMAIN img : \E x \in DOMAIN img[y] : img[y][x] = col

C8_DrawRanges ==
    (ipc \in {"shape", "returned"}) =>
        /\ xy1 \in 10..40
        /\ xy2 \in 60..100
        /\ (10..40) \cap (60..100) = {}
        /\ xy2 - xy1 >= 20
        /\ \A ch \in 1..3 : col[ch] \in 0..200
        /\ col # <<255, 255, 255>>

C8_Witness ==
    /\ ImageReturned
    /\ xy1 = 40 /\ xy2 = 60
    /\ col = <<200, 200, 200>>

(***************************************************************************)
(* Properties of PlaneDataSet                                              *)
(***************************************************************************)
DataReturned == dpc = "returned"

\* C9: __getitem__ takes the same flip decision for the image and its mask:
\* the pair returned is built either with both flipped or with neither.
C9_SameFlipDecision ==
    DataReturned =>
        /\ imgFlipped = maskFlipped
        /\ \E b \in BOOLEAN :
              result = <<ItemOf(image_dir[filenames[index + 1]], b),
                         ItemOf(mask_dir[filenames[index + 1]], b)>>

C9_Witness ==
    /\ DataReturned
    /\ imgFlipped /\ maskFlipped
    /\ result[1] # ItemOf(image_dir[filenames[index + 1]], FALSE)
    /\ result[2] # ItemOf(mask_dir[filenames[index + 1]], FALSE)

\* C10: of the equally likely values of the random draw, exactly half select
\* the flip.
C10_FlipHalfTheTime ==
    (dpc \in {"image", "mask", "returned"}) =>
        2 * Cardinality({r \in RandLo .. RandHi : ImageFlipCond(r)})
            = Cardinality(RandLo .. RandHi)

\* the names of the files of a directory
Names(dir) == DOMAIN dir

\* C13: the length PlaneDataSet reports is the number of files of the mask
\* directory at construction and does not change afterwards; when the image
\* directory holds the same names as the mask directory held at construction
\* (the names of self.filenames), the length is their number, no access
\* raises, and the access at every index returns the image and the mask
\* stored under the one name self.filenames holds at that index.
C13_LenStep ==
    /\ dpc = "new" =>
          /\ DataSetLen(filenames') = Cardinality(Names(mask_dir))
          /\ Range(filenames') = Names(mask_dir)
    /\ dpc # "new" => DataSetLen(filenames') = DataSetLen(filenames)

C13_SameNames ==
    (dpc # "new" /\ Names(image_dir) = Range(filenames)) =>
        /\ DataSetLen(filenames) = Cardinality(Names(image_dir))
        /\ dpc # "raised"
        /\ DataReturned =>
              \E name \in Names(image_dir) \cap Names(mask_dir) :
                  /\ name = filenames[index + 1]
                  /\ result = <<ItemOf(image_dir[name], imgFlipped),
                                ItemOf(mask_dir[name], maskFlipped)>>

C13_Length == []C13_SameNames /\ [][C13_LenStep]_vars

C13_Witness ==
    /\ DataReturned
    /\ Names(image_dir) = Range(filenames)
    /\ DataSetLen(filenames) = 2
    /\ index = 1
    /\ image_dir[filenames[1]] # image_dir[filenames[2]]

\* the file name __getitem__ is working on
CurrentName == filenames[index + 1]

\* C15: when the mask name at the index has no image file, __getitem__
\* raises instead of returning a pair, and nothing runs after the raise;
\* the construction succeeds whatever the two directories hold and the
\* length counts every mask name, also one without an image.
C15_State ==
    /\ dpc = "new" => ENABLED Construct
    /\ dpc \in {"mask", "returned"} => CurrentName \in Names(image_dir)
    /\ (dpc = "image" /\ CurrentName \notin Names(image_dir)) =>
          /\ ENABLED ImageMissing
          /\ ~ENABLED ImageFlip
          /\ ~ENABLED ImageNoFlip
    /\ dpc = "raised" =>
          /\ CurrentName \notin Names(image_dir)
          /\ result = <<>>
          /\ ~ENABLED NextData

C15_Step ==
    /\ dpc = "new" =>
          /\ dpc' = "ready"
          /\ Range(filenames') = Names(mask_dir)
          /\ DataSetLen(filenames') = Cardinality(Names(mask_dir))
    /\ (dpc = "image" /\ CurrentName \notin Names(image_dir)) =>
          /\ dpc' = "raised"
          /\ result' = <<>>
    /\ dpc = "raised" => UNCHANGED vars

C15_MissingImageIsFatal == []C15_State /\ [][C15_Step]_vars

C15_Witness ==
    /\ dpc = "raised"
    /\ DataSetLen(filenames) = 2
    /\ Cardinality(Names(image_dir)) = 1
    /\ CurrentName \notin Names(image_dir)

\* the left-right mirror of a tensor with a leading channel dimension
MirrorTensor(t) == <<FlipLeftRight(t[1])>>

\* C16: the pair returned when the flip is applied is the left-right mirror
\* of the pair returned when it is not: the same normalized values with the
\* columns reversed, so that mirroring it gives back the unflipped pair.
C16_FlipIsMirror ==
    (DataReturned /\ imgFlipped /\ maskFlipped) =>
        /\ result[1] = MirrorTensor(ItemOf(image_dir[CurrentName], FALSE))
        /\ result[2] = MirrorTensor(ItemOf(mask_dir[CurrentName], FALSE))
        /\ MirrorTensor(result[1]) = ItemOf(image_dir[CurrentName], FALSE)
        /\ MirrorTensor(result[2]) = ItemOf(mask_dir[CurrentName], FALSE)

(***************************************************************************)
(* Properties of the training cell                                         *)
(***************************************************************************)
\* the number of entries of a log equal to an event
RECURSIVE CountOf(_, _)
CountOf(log, ev) ==
    IF log = <<>> THEN 0
    ELSE (IF Head(log) = ev THEN 1 ELSE 0) + CountOf(Tail(log), ev)

\* the sum of a sequence of numbers
RECURSIVE SumOf(_)
SumOf(seq) == IF seq = <<>> THEN 0 ELSE Head(seq) + SumOf(Tail(seq))

\* every sample of the dataset can be loaded
AllSamplesLoad == bad = {}

C11_State ==
    \* epochs 1, 2, ... are run once each and in order, never more than epochs
    /\ Len(epoch_nums) <= Epochs
    /\ \A j \in 1 .. Len(epoch_nums) : epoch_nums[j] = j
    /\ Len(batch_losses) \in {Len(epoch_nums), Len(epoch_nums) + 1}
    \* the terminal state is reached after exactly the fixed number of epochs
    /\ tpc = "saved" => epoch_nums = [j \in 1 .. Epochs |-> j]
    \* the checkpoint file is read first, once, before the first epoch
    /\ batch_losses # <<>> => io_log # <<>> /\ io_log[1] = "read"
    /\ CountOf(io_log, "read") = (IF tpc = "start" THEN 0 ELSE 1)
    \* and written once, at the end only
    /\ CountOf(io_log, "write") = (IF tpc = "saved" THEN 1 ELSE 0)
    /\ tpc # "saved" => weights_file = 0
    /\ tpc = "saved" => weights_file = params /\ io_log = <<"read", "write">>

\* C11: the training run runs epochs 1..epochs once each and in order and
\* then reaches its terminal state (it does reach it when every sample of
\* the dataset loads); the checkpoint file is read before the first epoch and
\* written exactly once, after the last epoch, never between epochs.
C11_EpochsThenCheckpoint ==
    /\ []C11_State
    /\ (AllSamplesLoad ~> (tpc = "saved"))

C11_Witness ==
    /\ tpc = "saved"
    /\ n_samples > BatchSize
    /\ epoch_nums = <<1, 2>>
    /\ \A e \in 1 .. 2 : Len(batch_losses[e]) = 2
    /\ params = 4
    /\ weights_file = 4
    /\ io_log = <<"read", "write">>

\* C12: for each epoch, the value train returns is the mean of the losses
\* of that epoch's batches: the running total divided by the number of batch
\* losses added to it.
C12_MeanOfBatchLosses ==
    \A e \in 1 .. Len(training_loss) :
        training_loss[e][1] * Len(batch_losses[e]) = SumOf(batch_losses[e]) * training_loss[e][2]

(***************************************************************************)
(* Properties of predict_image                                             *)
(***************************************************************************)
\* C14: predict_image returns one label per input image, in input order,
\* each the entry of [circle, square, triangle] at the index of the largest
\* predicted probability, the lowest such index when several are largest.
C14_LabelOfFirstMaximum ==
    ppc = "returned" =>
        /\ Len(predicted_classes) = Len(image_array)
        /\ \A j \in 1 .. Len(image_array) :
              \E c \in 0 .. 2 :
                  /\ predicted_classes[j] = <<"circle", "square", "triangle">>[c + 1]
                  /\ \A d \in 0 .. 2 : predictions[j][d] <= predictions[j][c]
                  /\ \A d \in 0 .. c - 1 : predictions[j][d] < predictions[j][c]

C14_Witness ==
    /\ ppc = "returned"
    /\ Len(image_array) = 2
    /\ predictions[1] = [d \in 0 .. 2 |-> IF d = 0 THEN 0 ELSE 1]
    /\ predictions[2] = [d \in 0 .. 2 |-> IF d = 2 THEN 1 ELSE 0]
    /\ predicted_classes = <<"square", "triangle">>

====
